---------------------------- MODULE Spec2Model ----------------------------
(***************************************************************************)
(* Model of entrypoint.py (areas_revenue): main() recomputes the hourly    *)
(* table t_area_revenue_stats2 and the daily table t_area_revenue_stats3   *)
(* from the telemetry feed, the ride feed, the zone catalog and the        *)
(* distribution input, and replaces a trailing time window of each table.  *)
(*                                                                         *)
(* Time is counted in whole hours.  A numeric dataframe cell is a          *)
(* fraction [n, d]: d = 0 and n = 0 is NaN, d = 0 and n # 0 is infinite.   *)
(* A dataframe is a set of rows (the feeds carry no two equal rows); a     *)
(* database table is a bag of rows.                                        *)
(***************************************************************************)
EXTENDS Integers, Sequences, FiniteSets, Bags, TLC

(* ---------------------------- bounds ----------------------------------- *)
\* last hour the clock can reach
MaxClock == 4
\* hours in a calendar day (24, scaled down)
HoursPerDay == 3
\* rows of the telemetry store (t_bike_history)
MaxSamples == 2
\* rows of the telemetry store where attribution and aggregation are checked
MaxAttrSamples == 3
\* rows of the ride store (t_orders_revenue / t_bike_use)
MaxRides == 2
\* invocations of main()
MaxRuns == 2

\* the largest column number _get_column_letter is called with
MaxColumn == 704

(* ------------------------ program constants ---------------------------- *)
\* NOW() + INTERVAL '2 hours'
TzShift == 2

(* --------------------------- fractions --------------------------------- *)
RECURSIVE GCD(_, _)
GCD(a, b) == IF b = 0 THEN a ELSE GCD(b, a % b)

Abs(x) == IF x < 0 THEN -x ELSE x

Sign(x) == IF x < 0 THEN -1 ELSE IF x > 0 THEN 1 ELSE 0

NaN == [n |-> 0, d |-> 0]

\* a fraction in lowest terms with a non-negative denominator
Norm(n, d) ==
    IF d = 0 THEN [n |-> Sign(n), d |-> 0]
    ELSE LET g == GCD(Abs(n), Abs(d))
         IN  [n |-> Sign(d) * (n \div g), d |-> Abs(d) \div g]

Num(k) == [n |-> k, d |-> 1]

IsNaN(x) == x.d = 0 /\ x.n = 0

RatMul(a, b) == Norm(a.n * b.n, a.d * b.d)

RatDiv(a, b) == Norm(a.n * b.d, a.d * b.n)

RatAdd(a, b) ==
    IF a.d = 0 \/ b.d = 0
    THEN IF IsNaN(a) \/ IsNaN(b) THEN NaN
         ELSE IF a.d = 0 /\ b.d = 0
              THEN (IF a.n = b.n THEN a ELSE NaN)
              ELSE (IF a.d = 0 THEN a ELSE b)
    ELSE Norm(a.n * b.d + b.n * a.d, a.d * b.d)

\* FillNa without the replacement: a NaN cell stays NaN
FillNa_Kept(x) == x

\* Series.fillna(0)
FillNa(x) == IF IsNaN(x) THEN Num(0) ELSE x

RECURSIVE SumField(_, _)
\* sum of the integer column fld over the rows of frame S
SumField(S, fld) ==
    IF S = {} THEN 0
    ELSE LET r == CHOOSE x \in S : TRUE
         IN  r[fld] + SumField(S \ {r}, fld)

RECURSIVE RatSumField(_, _)
\* sum of the fraction column fld over the rows of frame S (NaN skipped,
\* as pandas sums)
RatSumField(S, fld) ==
    IF S = {} THEN Num(0)
    ELSE LET r == CHOOSE x \in S : TRUE
         IN  RatAdd(FillNa(r[fld]), RatSumField(S \ {r}, fld))

(* ---------------------------- calendar --------------------------------- *)
\* date_trunc('day', t) as a day number; t may be negative
DayOf(t) == IF t >= 0 THEN t \div HoursPerDay
            ELSE -((HoursPerDay - 1 - t) \div HoursPerDay)

\* pd.to_datetime(timestamp_hour.dt.date): midnight of the hour's day
StartDay(t) == DayOf(t) * HoursPerDay

\* date_trunc('hour', NOW() + INTERVAL '2 hours') - INTERVAL '2 hours'
HourWindowStart(clock) == (clock + TzShift) - TzShift

\* date_trunc('hour', NOW())
HourTrunc(clock) == clock

\* date_trunc('day', (NOW() + INTERVAL '2 hours')) - INTERVAL '1 days'
DayWindowStart(clock) == StartDay(clock + TzShift) - HoursPerDay

\* UNIX_TIMESTAMP(DATE_SUB(CURDATE(), INTERVAL 1 DAY))
CurdateWindowStart(clock) == StartDay(clock) - HoursPerDay

(* ------------------------- zones and points ---------------------------- *)
\* polyline.decode: encoded path -> vertex tuples; a string outside the
\* table is malformed and makes the decoder raise
PolylineTable ==
    [ encZ1 |-> << <<0, 0>>, <<0, 2>>, <<2, 2>>, <<2, 0>> >>,
      encZ2 |-> << <<10, 10>>, <<10, 12>>, <<12, 12>>, <<12, 10>> >>,
      encZ3 |-> << <<0, 0>>, <<0, 4>>, <<4, 4>>, <<4, 0>> >>,
      encZ4 |-> << <<19, 19>>, <<19, 21>>, <<21, 21>>, <<21, 19>> >> ]

Decodable(encoded) == encoded \in DOMAIN PolylineTable

decode_polyline_to_tuples(encoded) == PolylineTable[encoded]

SetMin(S) == CHOOSE x \in S : \A y \in S : x <= y

SetMax(S) == CHOOSE x \in S : \A y \in S : x >= y

\* Polygon(area_poly).contains(Point(lat, lng)) for the axis-aligned
\* rectangles of PolylineTable: shapely's contains holds for the points of
\* the interior only
PolygonContains(area_poly, lat, lng) ==
    LET lats == {area_poly[i][1] : i \in DOMAIN area_poly}
        lngs == {area_poly[i][2] : i \in DOMAIN area_poly}
    IN  /\ SetMin(lats) < lat /\ lat < SetMax(lats)
        /\ SetMin(lngs) < lng /\ lng < SetMax(lngs)

poly_contains_point_kvt(df) ==
    PolygonContains(df.area_poly, df.g_lat, df.g_lng)

poly_contains_point_orders(df) ==
    PolygonContains(df.area_poly, df.start_lat, df.start_lng)

Z1 == [area_id |-> 1, area_name |-> "Z1", area_detail |-> "encZ1"]
Z2 == [area_id |-> 2, area_name |-> "Z2", area_detail |-> "encZ2"]
Z3 == [area_id |-> 3, area_name |-> "Z3", area_detail |-> "encZ3"]
ZBad == [area_id |-> 4, area_name |-> "Z4", area_detail |-> "truncated"]
\* a second catalog row with the id of Z1 under another name
Z1b == [area_id |-> 1, area_name |-> "Z1b", area_detail |-> "encZ4"]

\* zone catalogs (t_area rows in row order): disjoint zones, overlapping
\* zones in both orders, a catalog with a malformed boundary
Catalogs == { <<Z1, Z2>>, <<Z1, Z3>>, <<Z3, Z1>>, <<Z1, ZBad>> }

(* --------------------------- the stores -------------------------------- *)
\* t_bike.city_id of a vehicle
CityOfBike == <<1, 1, 2>>

\* the hours at which the stores hold events: the last hour of day 0 and
\* the first two hours of day 1
H0 == HoursPerDay - 1
H1 == HoursPerDay
H2 == HoursPerDay + 1

Sample(hour, bike, lat, lng) ==
    [timestamp_hour |-> hour, id |-> bike, city_id |-> CityOfBike[bike],
     g_lat |-> lat, g_lng |-> lng]

\* candidate rows of t_bike_history (latest sample of a vehicle in an hour)
HistoryPool ==
    { Sample(H1, 1, 1, 1), Sample(H1, 2, 1, 1), Sample(H1, 2, 20, 20),
      Sample(H1, 3, 3, 3), Sample(H0, 1, 1, 1), Sample(H2, 1, 2, 2),
      Sample(H2, 2, 1, 1) }

Ride(hour, id, city, lat, lng) ==
    [timestamp_hour |-> hour, id |-> id, city_id |-> city,
     start_lat |-> lat, start_lng |-> lng,
     ride_amount |-> IF id = 1 THEN 100 ELSE 40,
     discount |-> IF id = 1 THEN 10 ELSE 0,
     bike_discount_amount |-> IF id = 1 THEN 5 ELSE 2,
     subscription_price |-> IF id = 1 THEN 0 ELSE 7]

\* candidate rows of the ride store
RidePool ==
    { Ride(H1, 1, 1, 1, 1), Ride(H1, 2, 1, 3, 3), Ride(H0, 2, 1, 1, 1),
      Ride(H1, 2, 2, 1, 1), Ride(H2, 2, 1, 1, 1), Ride(H1, 2, 1, 20, 20) }

Distr(day, city, dolgi, vyr, mnogor) ==
    [start_day |-> day, city_id |-> city, dolgi |-> dolgi,
     vyruchka_s_abonementov |-> vyr, sum_mnogor_abon |-> mnogor]

\* what the distribution-input query can return per day and city; NaN is
\* a NULL of the outer joins
DistrSources ==
    { {},
      {Distr(H1, 1, Num(50), Num(30), NaN)},
      {Distr(H1, 1, Num(50), Num(30), Num(12)), Distr(0, 1, Num(20), NaN, Num(6))},
      {Distr(H1, 1, Num(50), Num(30), Num(12)), Distr(H1, 2, Num(8), Num(4), Num(2))},
      {Distr(H1, 1, Num(50), Num(30), Num(12)), Distr(H1, 1, Num(6), Num(6), Num(6))} }

\* candidate telemetry rows for attribution: inside Z1 in two hours of a
\* day, inside Z4 only, on a vertex and on an edge of Z1, and with a latitude
\* or a longitude outside the geographic range
AttrHistoryPool ==
    { Sample(H1, 1, 1, 1), Sample(H1, 2, 1, 1), Sample(H2, 2, 1, 1),
      Sample(H1, 2, 20, 20), Sample(H2, 1, 2, 2), Sample(H1, 3, 0, 1),
      Sample(H2, 3, 91, 1), Sample(H2, 3, 1, 181) }

\* candidate rides for attribution
AttrRidePool ==
    { Ride(H1, 1, 1, 1, 1), Ride(H2, 2, 1, 1, 1), Ride(H1, 2, 1, 2, 1) }

\* catalogs for attribution: disjoint zones, overlapping zones, two rows
\* with one id
AttrCatalogs == { <<Z1, Z2>>, <<Z1, Z3>>, <<Z1, Z1b>> }

\* subsets of pool with at most k rows, no two rows sharing (timestamp_hour, id)
Stores(pool, k) ==
    { S \in SUBSET pool :
        /\ Cardinality(S) <= k
        /\ \A a, b \in S :
             (a.timestamp_hour = b.timestamp_hour /\ a.id = b.id) => a = b }

(* ------------------------ pipeline stages ------------------------------ *)
\* df_areas['area_poly'] = df_areas['area_detail'].apply(decode_polyline_to_tuples)
DecodeAreas(areas) ==
    [i \in DOMAIN areas |->
        [area_id |-> areas[i].area_id, area_name |-> areas[i].area_name,
         area_detail |-> areas[i].area_detail,
         area_poly |-> decode_polyline_to_tuples(areas[i].area_detail)]]

\* cross merge with the catalog, keep the rows whose polygon contains the
\* sample, drop all columns but (timestamp_hour, id, area_id, area_name)
KvtMatches(kvt, areas) ==
    { [timestamp_hour |-> s.timestamp_hour, id |-> s.id,
       area_id |-> areas[i].area_id, area_name |-> areas[i].area_name] :
      <<s, i>> \in { p \in kvt \X DOMAIN areas :
          poly_contains_point_kvt(
              [g_lat |-> p[1].g_lat, g_lng |-> p[1].g_lng,
               area_poly |-> areas[p[2]].area_poly]) } }

OrdersMatches(orders, areas) ==
    { [timestamp_hour |-> s.timestamp_hour, id |-> s.id,
       area_id |-> areas[i].area_id, area_name |-> areas[i].area_name] :
      <<s, i>> \in { p \in orders \X DOMAIN areas :
          poly_contains_point_orders(
              [start_lat |-> p[1].start_lat, start_lng |-> p[1].start_lng,
               area_poly |-> areas[p[2]].area_poly]) } }

\* AttributeLeft with how='inner' in place of how='left': a sample without
\* a match is dropped
AttributeLeft_Inner(feed, matches) ==
    { [sample |-> s, area_id |-> m.area_id, area_name |-> m.area_name] :
      <<s, m>> \in { p \in feed \X matches :
                       /\ p[2].timestamp_hour = p[1].timestamp_hour
                       /\ p[2].id = p[1].id } }

\* left merge of the feed with its matches on (timestamp_hour, id), then
\* area_id.fillna(0) and area_name.fillna('0'): one row per match, and one
\* row in zone 0 for a sample without a match
AttributeLeft(feed, matches) ==
    UNION { LET mine == { m \in matches :
                            /\ m.timestamp_hour = s.timestamp_hour
                            /\ m.id = s.id }
            IN  IF mine = {}
                THEN { [sample |-> s, area_id |-> 0, area_name |-> "0"] }
                ELSE { [sample |-> s, area_id |-> m.area_id,
                        area_name |-> m.area_name] : m \in mine }
          : s \in feed }

AttributeKvt(kvt, areas) == AttributeLeft(kvt, KvtMatches(kvt, areas))

AttributeOrders(orders, areas) ==
    AttributeLeft(orders, OrdersMatches(orders, areas))

KeyOf(bucket, r) ==
    [bucket |-> bucket, city_id |-> r.sample.city_id,
     area_id |-> r.area_id, area_name |-> r.area_name]

RowKey(r) ==
    [bucket |-> r.bucket, city_id |-> r.city_id,
     area_id |-> r.area_id, area_name |-> r.area_name]

\* groupby(['timestamp_hour','city_id','area_id','area_name']).agg({'id':'count'})
AggregateKvt(attributed) ==
    { [bucket |-> k.bucket, city_id |-> k.city_id, area_id |-> k.area_id,
       area_name |-> k.area_name,
       kvt |-> Num(Cardinality({ r \in attributed :
                                   KeyOf(r.sample.timestamp_hour, r) = k }))] :
      k \in { KeyOf(r.sample.timestamp_hour, r) : r \in attributed } }

\* DailyKvt with 'sum' in place of 'mean'
DailyKvt_Sum(hourly) ==
    { LET grp == { r \in hourly :
                     RowKey([r EXCEPT !.bucket = StartDay(r.bucket)]) = k }
      IN  [bucket |-> k.bucket, city_id |-> k.city_id, area_id |-> k.area_id,
           area_name |-> k.area_name,
           kvt |-> RatSumField(grp, "kvt")] :
      k \in { RowKey([r EXCEPT !.bucket = StartDay(r.bucket)]) : r \in hourly } }

\* start_day of the hourly rows, then groupby(start_day, ...).agg({'kvt':'mean'})
DailyKvt(hourly) ==
    { LET grp == { r \in hourly :
                     RowKey([r EXCEPT !.bucket = StartDay(r.bucket)]) = k }
      IN  [bucket |-> k.bucket, city_id |-> k.city_id, area_id |-> k.area_id,
           area_name |-> k.area_name,
           kvt |-> RatDiv(RatSumField(grp, "kvt"), Num(Cardinality(grp)))] :
      k \in { RowKey([r EXCEPT !.bucket = StartDay(r.bucket)]) : r \in hourly } }

\* the sample columns of the attributed rides of one group, summed
SampleSum(grp, fld) ==
    SumField({ [id |-> r.sample.id, v |-> r.sample[fld], a |-> r.area_id,
                nm |-> r.area_name] : r \in grp }, "v")

\* groupby(...).agg({'id':'count', 'ride_amount':'sum', ...}) and the renames
AggregateOrders(attributed) ==
    { LET grp == { r \in attributed :
                     KeyOf(r.sample.timestamp_hour, r) = k }
      IN  [bucket |-> k.bucket, city_id |-> k.city_id, area_id |-> k.area_id,
           area_name |-> k.area_name,
           poezdok |-> Cardinality(grp),
           obzchaya_stoimost |-> SampleSum(grp, "ride_amount"),
           oplacheno_bonusami |-> SampleSum(grp, "discount"),
           skidka |-> SampleSum(grp, "bike_discount_amount"),
           abon |-> SampleSum(grp, "subscription_price")] :
      k \in { KeyOf(r.sample.timestamp_hour, r) : r \in attributed } }

\* start_day of the hourly rows, then groupby(start_day, ...) with sums
DailyOrders(hourly) ==
    { LET grp == { r \in hourly :
                     RowKey([r EXCEPT !.bucket = StartDay(r.bucket)]) = k }
      IN  [bucket |-> k.bucket, city_id |-> k.city_id, area_id |-> k.area_id,
           area_name |-> k.area_name,
           poezdok |-> SumField(grp, "poezdok"),
           obzchaya_stoimost |-> SumField(grp, "obzchaya_stoimost"),
           oplacheno_bonusami |-> SumField(grp, "oplacheno_bonusami"),
           skidka |-> SumField(grp, "skidka"),
           abon |-> SumField(grp, "abon")] :
      k \in { RowKey([r EXCEPT !.bucket = StartDay(r.bucket)]) : r \in hourly } }

\* a ride-aggregate row with the three city totals joined to it
WithDistr(r, dolgi, vyr, mnogor) ==
    [bucket |-> r.bucket, city_id |-> r.city_id, area_id |-> r.area_id,
     area_name |-> r.area_name, poezdok |-> r.poezdok,
     obzchaya_stoimost |-> r.obzchaya_stoimost,
     oplacheno_bonusami |-> r.oplacheno_bonusami,
     skidka |-> r.skidka, abon |-> r.abon,
     dolgi |-> FillNa(dolgi),
     vyruchka_s_abonementov |-> FillNa(vyr),
     sum_mnogor_abon |-> FillNa(mnogor)]

\* df_orders_areas_res.merge(df_distr, how='left', on='city_id'), fillna(0)
MergeDistrHourly(orders_agg, distr) ==
    UNION { LET ds == { d \in distr : d.city_id = r.city_id }
            IN  IF ds = {} THEN { WithDistr(r, NaN, NaN, NaN) }
                ELSE { WithDistr(r, d.dolgi, d.vyruchka_s_abonementov,
                                 d.sum_mnogor_abon) : d \in ds }
          : r \in orders_agg }

\* df_orders_areas_res.merge(df_distr, how='left', on=['start_day','city_id'])
MergeDistrDaily(orders_agg, distr) ==
    UNION { LET ds == { d \in distr : /\ d.city_id = r.city_id
                                      /\ d.start_day = r.bucket }
            IN  IF ds = {} THEN { WithDistr(r, NaN, NaN, NaN) }
                ELSE { WithDistr(r, d.dolgi, d.vyruchka_s_abonementov,
                                 d.sum_mnogor_abon) : d \in ds }
          : r \in orders_agg }

\* groupby('city_id')['poezdok'].transform('sum')
CumPoezdok(frame, r) ==
    SumField({ x \in frame : x.city_id = r.city_id }, "poezdok")

\* total * poezdok / cum_poezdok
Share(total, poezdok, cum) == RatDiv(RatMul(total, Num(poezdok)), Num(cum))

\* the cum_poezdok column and the three *_res columns
Distribute(frame) ==
    { LET cum == CumPoezdok(frame, r)
      IN  [bucket |-> r.bucket, city_id |-> r.city_id, area_id |-> r.area_id,
           area_name |-> r.area_name, poezdok |-> r.poezdok,
           obzchaya_stoimost |-> r.obzchaya_stoimost,
           oplacheno_bonusami |-> r.oplacheno_bonusami,
           skidka |-> r.skidka, abon |-> r.abon,
           dolgi |-> r.dolgi,
           vyruchka_s_abonementov |-> r.vyruchka_s_abonementov,
           sum_mnogor_abon |-> r.sum_mnogor_abon,
           cum_poezdok |-> cum,
           dolgi_res |-> Share(r.dolgi, r.poezdok, cum),
           vyruchka_s_abonementov_res |->
               Share(r.vyruchka_s_abonementov, r.poezdok, cum),
           sum_mnogor_abon_res |-> Share(r.sum_mnogor_abon, r.poezdok, cum)] :
      r \in frame }

\* OutRow without the fillna(0) of the three share columns
OutRow_SharesNotFilled(k, poezdok, obz, opl, skidka, abon, dolgi, vyr, mnogor, stamp) ==
    [timestamp_hour |-> k.bucket, city_id |-> k.city_id,
     area_id |-> k.area_id, area_name |-> k.area_name, kvt |-> k.kvt,
     poezdok |-> FillNa(poezdok), obzchaya_stoimost |-> FillNa(obz),
     oplacheno_bonusami |-> FillNa(opl), skidka |-> FillNa(skidka),
     abon |-> FillNa(abon), dolgi |-> dolgi,
     vyruchka_s_abonementov |-> vyr,
     sum_mnogor_abon |-> mnogor, add_time |-> stamp]

\* one output row: the selected and renamed columns, each passed through
\* fillna(0), and the add_time stamp
OutRow(k, poezdok, obz, opl, skidka, abon, dolgi, vyr, mnogor, stamp) ==
    [timestamp_hour |-> k.bucket, city_id |-> k.city_id,
     area_id |-> k.area_id, area_name |-> k.area_name, kvt |-> k.kvt,
     poezdok |-> FillNa(poezdok), obzchaya_stoimost |-> FillNa(obz),
     oplacheno_bonusami |-> FillNa(opl), skidka |-> FillNa(skidka),
     abon |-> FillNa(abon), dolgi |-> FillNa(dolgi),
     vyruchka_s_abonementov |-> FillNa(vyr),
     sum_mnogor_abon |-> FillNa(mnogor), add_time |-> stamp]

\* MergeKvtOrders with how='inner' in place of how='left'
MergeKvtOrders_Inner(kvt_agg, orders_res, stamp) ==
    { OutRow(p[1], Num(p[2].poezdok), Num(p[2].obzchaya_stoimost),
             Num(p[2].oplacheno_bonusami), Num(p[2].skidka), Num(p[2].abon),
             p[2].dolgi_res, p[2].vyruchka_s_abonementov_res,
             p[2].sum_mnogor_abon_res, stamp) :
      p \in { q \in kvt_agg \X orders_res : RowKey(q[2]) = RowKey(q[1]) } }

\* df_kvt_area_res.merge(df_orders_areas_res, how='left', on=[key columns])
MergeKvtOrders(kvt_agg, orders_res, stamp) ==
    UNION { LET ms == { r \in orders_res : RowKey(r) = RowKey(k) }
            IN  IF ms = {}
                THEN { OutRow(k, NaN, NaN, NaN, NaN, NaN, NaN, NaN, NaN, stamp) }
                ELSE { OutRow(k, Num(r.poezdok), Num(r.obzchaya_stoimost),
                              Num(r.oplacheno_bonusami), Num(r.skidka),
                              Num(r.abon), r.dolgi_res,
                              r.vyruchka_s_abonementov_res,
                              r.sum_mnogor_abon_res, stamp) : r \in ms }
          : k \in kvt_agg }

(* ------------------------- the result tables --------------------------- *)
\* DeleteFrom with > in place of >=: the bucket at the window start is kept
DeleteFrom_Exclusive(table, start) ==
    [r \in { x \in DOMAIN table : x.timestamp_hour <= start } |-> table[r]]

\* DeleteFrom without its WHERE clause: every row is deleted
DeleteFrom_All(table, start) == EmptyBag

\* DELETE FROM t WHERE t."timestamp_hour" >= start
DeleteFrom(table, start) ==
    [r \in { x \in DOMAIN table : x.timestamp_hour < start } |-> table[r]]

\* DataFrame.to_sql(t, if_exists="append")
AppendTo(table, rows) == table (+) SetToBag(rows)

(* ----------------------------- t_last_kvt ------------------------------ *)
\* df_t_last_kvt: the result of select_t_last_kvt, one row per active
\* parking with the vehicles nearest to it; NOW() AS add_time is not carried
LastKvtRows ==
    { [city_id |-> 1, area_id |-> 1, area_name |-> "Z1", parking_id |-> 7,
       parking_name |-> "P7", kvt |-> 2],
      [city_id |-> 1, area_id |-> 0, area_name |-> "0", parking_id |-> 8,
       parking_name |-> "P8", kvt |-> 0] }

(* -------------------------- the column letters ------------------------- *)
Alphabet ==
    << "A", "B", "C", "D", "E", "F", "G", "H", "I", "J", "K", "L", "M",
       "N", "O", "P", "Q", "R", "S", "T", "U", "V", "W", "X", "Y", "Z" >>

\* chr(code) for the codes of the capital letters
chr(code) == Alphabet[code - 64]

\* the loop body without its decrement: ordinary base 26
get_column_letter_body_NoDecrement(n, res) ==
    [column_number |-> n \div 26,
     result |-> <<chr((n % 26) + 65)>> \o res]

\* one pass of the while loop of _get_column_letter:
\*   column_number -= 1
\*   result = chr(column_number % 26 + 65) + result
\*   column_number //= 26
get_column_letter_body(n, res) ==
    [column_number |-> (n - 1) \div 26,
     result |-> <<chr(((n - 1) % 26) + 65)>> \o res]

RECURSIVE get_column_letter_loop(_, _)
get_column_letter_loop(n, res) ==
    IF n > 0
    THEN LET b == get_column_letter_body(n, res)
         IN  get_column_letter_loop(b.column_number, b.result)
    ELSE res

\* _get_column_letter(column_number): result = "" and the loop
get_column_letter(n) == get_column_letter_loop(n, <<>>)

(* --------------------------- the spreadsheet --------------------------- *)
\* df_parking_metadata: the result of select_parking_metadata
ParkingMetadata ==
    [columns |-> <<"parking_id", "target_scooter_count_workday_6_to_18",
                   "target_scooter_count_workday_18_to_6",
                   "target_scooter_count_weekend">>,
     rows |-> << <<"7", "3", "2", "1">> >>]

\* what Sheet2 holds before the first run: the rows of an earlier refresh
StaleSheet ==
    << ParkingMetadata.columns, <<"7", "5", "5", "5">>, <<"8", "1", "1", "1">> >>

\* get_sheet_metadata: None when the request raises or the sheet is not found
get_sheet_metadata(found, meta_ok) == meta_ok /\ found

\* truncate_sheet_batch: False without metadata or when batchUpdate raises,
\* else every cell of the sheet is cleared
truncate_sheet_batch(sh, found, meta_ok, batch_ok) ==
    IF ~get_sheet_metadata(found, meta_ok)
    THEN [success |-> FALSE, sheet |-> sh]
    ELSE IF ~batch_ok THEN [success |-> FALSE, sheet |-> sh]
    ELSE [success |-> TRUE, sheet |-> <<>>]

\* write_dataframe: the header row and the rows are written from the first
\* row of the range on, the rows below them keep what they hold; None when
\* the request raises
write_dataframe(sh, df, include_headers, update_ok) ==
    LET values == IF include_headers THEN <<df.columns>> \o df.rows
                  ELSE df.rows
    IN  IF update_ok
        THEN [result |-> TRUE,
              sheet |-> values \o SubSeq(sh, Len(values) + 1, Len(sh))]
        ELSE [result |-> FALSE, sheet |-> sh]

\* truncate_and_write without the return after a failed clearing
truncate_and_write_NoReturn(sh, df, found, meta_ok, batch_ok, update_ok) ==
    LET c == truncate_sheet_batch(sh, found, meta_ok, batch_ok)
        w == write_dataframe(c.sheet, df, TRUE, update_ok)
    IN  [sheet |-> w.sheet,
         steps |-> << [step |-> "clear", ok |-> c.success],
                      [step |-> "write", ok |-> w.result] >>,
         returned |-> w.result]

\* truncate_and_write with use_batch_clear and include_headers
truncate_and_write(sh, df, found, meta_ok, batch_ok, update_ok) ==
    LET c == truncate_sheet_batch(sh, found, meta_ok, batch_ok)
        w == write_dataframe(c.sheet, df, TRUE, update_ok)
    IN  IF ~c.success
        THEN [sheet |-> c.sheet,
              steps |-> << [step |-> "clear", ok |-> FALSE] >>,
              returned |-> FALSE]
        ELSE [sheet |-> w.sheet,
              steps |-> << [step |-> "clear", ok |-> TRUE],
                           [step |-> "write", ok |-> w.result] >>,
              returned |-> w.result]

(* ------------------------------ state ---------------------------------- *)
VARIABLES
    t_area,                  \* damir.t_area: the zone catalog, in row order
    t_bike_history,          \* damir.t_bike_history joined with t_bike
    t_rides,                 \* t_orders_revenue / t_bike_use joined with t_bike
    v_distr,                 \* what the distribution-input query is computed from
    now,                     \* the wall clock, in hours
    pc,                      \* the statement main() executes next
    grain,                   \* "hour": the stats2 block, "day": the stats3 block
    runs,                    \* invocations of main() so far
    df_kvt, df_areas, df_orders, df_distr,
    kvt_attributed,          \* df_kvt_area_res before its groupby
    orders_attributed,       \* df_orders_areas_res before its groupby
    df_kvt_area_res, df_orders_areas_res, df_orders_kvt_area_res,
    t_area_revenue_stats2, t_area_revenue_stats3,
    window,                  \* grain -> window start of the last DELETE (-1: none)
    before,                  \* grain -> the table when main() started
    failed_at,               \* the statement that raised, "" if none
    last_write, prev_write,  \* grain -> the last two completed write steps
    connections,             \* database connections main() holds open
    sheet,                   \* what the range Sheet2!A:D of the spreadsheet holds
    sheet_report,            \* what truncate_and_write reported in this run
    sheet_steps,             \* the steps truncate_and_write took in this run
    t_last_kvt,              \* the table t_last_kvt, without its add_time column
    column_input,            \* the argument _get_column_letter was called with
    column_number, result    \* the locals of _get_column_letter

world == <<t_area, t_bike_history, t_rides, v_distr>>

frames == <<df_kvt, df_areas, df_orders, df_distr, kvt_attributed,
            orders_attributed, df_kvt_area_res, df_orders_areas_res,
            df_orders_kvt_area_res>>

tables == <<t_area_revenue_stats2, t_area_revenue_stats3>>

history == <<window, before, last_write, prev_write>>

io == <<connections, sheet, sheet_report, sheet_steps>>

col == <<column_input, column_number, result>>

vars == <<world, now, pc, grain, runs, frames, tables, history, failed_at, io,
          t_last_kvt, col>>

Grains == {"hour", "day"}

TableOf(g) == IF g = "hour" THEN t_area_revenue_stats2
              ELSE t_area_revenue_stats3

NoWrite == [valid |-> FALSE, window |-> 0, rows |-> {}, after |-> EmptyBag]

\* a row without its add_time column
Strip(r) ==
    [timestamp_hour |-> r.timestamp_hour, city_id |-> r.city_id,
     area_id |-> r.area_id, area_name |-> r.area_name, kvt |-> r.kvt,
     poezdok |-> r.poezdok, obzchaya_stoimost |-> r.obzchaya_stoimost,
     oplacheno_bonusami |-> r.oplacheno_bonusami, skidka |-> r.skidka,
     abon |-> r.abon, dolgi |-> r.dolgi,
     vyruchka_s_abonementov |-> r.vyruchka_s_abonementov,
     sum_mnogor_abon |-> r.sum_mnogor_abon]

\* a table without its add_time column
StripTable(table) == BagOfAll(Strip, table)

\* the local variables of a fresh invocation of main()
FreshFrames ==
    /\ df_kvt = {} /\ df_areas = <<>> /\ df_orders = {} /\ df_distr = {}
    /\ kvt_attributed = {} /\ orders_attributed = {}
    /\ df_kvt_area_res = {} /\ df_orders_areas_res = {}
    /\ df_orders_kvt_area_res = {}

\* main() is entered for the first time; the result tables are empty
InitMain ==
    /\ pc = "select_kvt" /\ grain = "hour" /\ runs = 1
    /\ FreshFrames
    /\ t_area_revenue_stats2 = EmptyBag /\ t_area_revenue_stats3 = EmptyBag
    /\ window = [g \in Grains |-> -1]
    /\ before = [g \in Grains |-> EmptyBag]
    /\ last_write = [g \in Grains |-> NoWrite]
    /\ prev_write = [g \in Grains |-> NoWrite]
    /\ failed_at = ""
    /\ connections = 0
    /\ sheet = StaleSheet /\ sheet_report = "none" /\ sheet_steps = <<>>
    /\ t_last_kvt = {}

(* ------------------------------ queries -------------------------------- *)
\* the rows of a store stamped up to the current hour, from start on
Since(store, start, clock) ==
    { r \in store : r.timestamp_hour >= start /\ r.timestamp_hour <= clock }

\* select_kvt: >= date_trunc('hour', NOW()) for stats2,
\* >= date_trunc('day', NOW() + 2 hours) - 1 day for stats3
QueryKvt(g, clock) ==
    Since(t_bike_history,
          IF g = "hour" THEN HourTrunc(clock) ELSE DayWindowStart(clock), clock)

\* select_orders: the PostgreSQL hour window for stats2, the MySQL
\* CURDATE() - 1 day window for stats3
QueryOrders(g, clock) ==
    Since(t_rides,
          IF g = "hour" THEN HourWindowStart(clock)
          ELSE CurdateWindowStart(clock), clock)

\* select_distr: one row per city (stats2) or per day and city (stats3)
QueryDistr(g, clock) ==
    IF g = "hour"
    THEN { [city_id |-> d.city_id, dolgi |-> d.dolgi,
            vyruchka_s_abonementov |-> d.vyruchka_s_abonementov,
            sum_mnogor_abon |-> d.sum_mnogor_abon] :
           d \in { x \in v_distr :
                     /\ x.start_day >= StartDay(HourWindowStart(clock))
                     /\ x.start_day <= clock } }
    ELSE { d \in v_distr : /\ d.start_day >= DayWindowStart(clock)
                           /\ d.start_day <= clock }

\* the window start of the DELETE statement of a grain
WindowStart(g, clock) ==
    IF g = "hour" THEN HourWindowStart(clock) ELSE DayWindowStart(clock)

(* ------------------------------ actions -------------------------------- *)
\* main() ends, by return or by exception: the frames of the process are gone
ReleaseFrames ==
    /\ df_kvt' = {} /\ df_areas' = <<>> /\ df_orders' = {} /\ df_distr' = {}
    /\ kvt_attributed' = {} /\ orders_attributed' = {}
    /\ df_kvt_area_res' = {} /\ df_orders_areas_res' = {}
    /\ df_orders_kvt_area_res' = {}

\* df_kvt = pd.read_sql(select_kvt, engine_postgresql)
SelectKvt ==
    /\ pc = "select_kvt"
    /\ df_kvt' = QueryKvt(grain, now)
    /\ pc' = "select_areas"
    /\ UNCHANGED <<world, now, grain, runs, df_areas, df_orders, df_distr,
                   kvt_attributed, orders_attributed, df_kvt_area_res,
                   df_orders_areas_res, df_orders_kvt_area_res, tables,
                   history, failed_at, io,
                   t_last_kvt, col>>

\* read the catalog, decode the boundaries, attribute and count the samples
SelectAreas ==
    /\ pc = "select_areas"
    /\ \A i \in DOMAIN t_area : Decodable(t_area[i].area_detail)
    /\ df_areas' = DecodeAreas(t_area)
    /\ kvt_attributed' = AttributeKvt(df_kvt, df_areas')
    /\ df_kvt_area_res' =
          IF grain = "hour" THEN AggregateKvt(kvt_attributed')
          ELSE DailyKvt(AggregateKvt(kvt_attributed'))
    /\ pc' = "select_orders"
    /\ UNCHANGED <<world, now, grain, runs, df_kvt, df_orders, df_distr,
                   orders_attributed, df_orders_areas_res,
                   df_orders_kvt_area_res, tables, history, failed_at, io,
                   t_last_kvt, col>>

\* polyline.decode raises on a malformed boundary; main() does not catch it
DecodeError ==
    /\ pc = "select_areas"
    /\ \E i \in DOMAIN t_area : ~Decodable(t_area[i].area_detail)
    /\ pc' = "failed"
    /\ failed_at' = "decode"
    /\ ReleaseFrames
    /\ UNCHANGED <<world, now, grain, runs, tables, history, io,
                   t_last_kvt, col>>

\* read the rides, attribute and aggregate them
SelectOrders ==
    /\ pc = "select_orders"
    /\ df_orders' = QueryOrders(grain, now)
    /\ orders_attributed' = AttributeOrders(df_orders', df_areas)
    /\ df_orders_areas_res' =
          IF grain = "hour" THEN AggregateOrders(orders_attributed')
          ELSE DailyOrders(AggregateOrders(orders_attributed'))
    /\ pc' = "select_distr"
    /\ UNCHANGED <<world, now, grain, runs, df_kvt, df_areas, df_distr,
                   kvt_attributed, df_kvt_area_res, df_orders_kvt_area_res,
                   tables, history, failed_at, io,
                   t_last_kvt, col>>

\* read the distribution input, distribute it, merge with the telemetry
\* aggregate, fill the gaps and stamp add_time
SelectDistr ==
    /\ pc = "select_distr"
    /\ df_distr' = QueryDistr(grain, now)
    /\ df_orders_areas_res' =
          Distribute(IF grain = "hour"
                     THEN MergeDistrHourly(df_orders_areas_res, df_distr')
                     ELSE MergeDistrDaily(df_orders_areas_res, df_distr'))
    /\ df_orders_kvt_area_res' =
          MergeKvtOrders(df_kvt_area_res, df_orders_areas_res', now)
    /\ pc' = "connect"
    /\ UNCHANGED <<world, now, grain, runs, df_kvt, df_areas, df_orders,
                   kvt_attributed, orders_attributed, df_kvt_area_res,
                   tables, history, failed_at, io,
                   t_last_kvt, col>>

\* with engine_postgresql.connect() as connection: a connection is taken
Connect ==
    /\ pc = "connect"
    /\ connections' = connections + 1
    /\ pc' = "delete"
    /\ UNCHANGED <<world, now, grain, runs, frames, tables, history,
                   failed_at, sheet, sheet_report, sheet_steps,
                   t_last_kvt, col>>

\* WithExit without the close: the connection stays open
WithExit_Leak(n) == n

\* leaving the with block, normally or by exception, closes its connection
WithExit(n) == n - 1

\* the DELETE of the window, committed in a transaction of its own; the
\* with block is left
DeleteWindow ==
    /\ pc = "delete"
    /\ LET start == WindowStart(grain, now)
       IN  /\ IF grain = "hour"
              THEN /\ t_area_revenue_stats2' =
                          DeleteFrom(t_area_revenue_stats2, start)
                   /\ UNCHANGED t_area_revenue_stats3
              ELSE /\ t_area_revenue_stats3' =
                          DeleteFrom(t_area_revenue_stats3, start)
                   /\ UNCHANGED t_area_revenue_stats2
           /\ window' = [window EXCEPT ![grain] = start]
    /\ pc' = "insert"
    /\ connections' = WithExit(connections)
    /\ UNCHANGED <<world, now, grain, runs, frames, before, last_write,
                   prev_write, failed_at, sheet, sheet_report, sheet_steps,
                   t_last_kvt, col>>

\* what a completed write step leaves behind, add_time left out
WriteRecord(g, table) ==
    [valid |-> TRUE, window |-> window[g],
     rows |-> { Strip(r) : r \in df_orders_kvt_area_res },
     after |-> StripTable(table)]

\* Insert with the stats3 block left out: the t_last_kvt block and the sheet
\* refresh follow the hourly insert
Insert_SkipDaily ==
    /\ pc = "insert"
    /\ IF grain = "hour"
       THEN /\ t_area_revenue_stats2' =
                   AppendTo(t_area_revenue_stats2, df_orders_kvt_area_res)
            /\ UNCHANGED t_area_revenue_stats3
       ELSE /\ t_area_revenue_stats3' =
                   AppendTo(t_area_revenue_stats3, df_orders_kvt_area_res)
            /\ UNCHANGED t_area_revenue_stats2
    /\ grain' = "day"
    /\ pc' = "last_kvt_select"
    /\ prev_write' = [prev_write EXCEPT ![grain] = last_write[grain]]
    /\ last_write' =
          [last_write EXCEPT ![grain] =
              WriteRecord(grain, IF grain = "hour" THEN t_area_revenue_stats2'
                                 ELSE t_area_revenue_stats3')]
    /\ UNCHANGED <<world, now, runs, frames, window, before, failed_at, io,
                   t_last_kvt, col>>

\* df_orders_kvt_area_res.to_sql(..., if_exists="append"), in a second
\* transaction; the stats2 block is followed by the stats3 block
Insert ==
    /\ pc = "insert"
    /\ IF grain = "hour"
       THEN /\ t_area_revenue_stats2' =
                   AppendTo(t_area_revenue_stats2, df_orders_kvt_area_res)
            /\ UNCHANGED t_area_revenue_stats3
            /\ grain' = "day"
            /\ pc' = "select_kvt"
       ELSE /\ t_area_revenue_stats3' =
                   AppendTo(t_area_revenue_stats3, df_orders_kvt_area_res)
            /\ UNCHANGED t_area_revenue_stats2
            /\ grain' = "day"
            /\ pc' = "last_kvt_select"
    /\ prev_write' = [prev_write EXCEPT ![grain] = last_write[grain]]
    /\ last_write' =
          [last_write EXCEPT ![grain] =
              WriteRecord(grain, IF grain = "hour" THEN t_area_revenue_stats2'
                                 ELSE t_area_revenue_stats3')]
    /\ UNCHANGED <<world, now, runs, frames, window, before, failed_at, io,
                   t_last_kvt, col>>

\* read the t_last_kvt rows (select_t_last_kvt)
LastKvtSelect ==
    /\ pc = "last_kvt_select"
    /\ pc' = "last_kvt_truncate"
    /\ UNCHANGED <<world, now, grain, runs, frames, tables, history, failed_at, io,
                   t_last_kvt, col>>

\* TRUNCATE TABLE t_last_kvt RESTART IDENTITY
LastKvtTruncate ==
    /\ pc = "last_kvt_truncate"
    /\ t_last_kvt' = {}
    /\ pc' = "last_kvt_insert"
    /\ UNCHANGED <<world, now, grain, runs, frames, tables, history, failed_at, io,
                   col>>

\* df_t_last_kvt.to_sql("t_last_kvt", ..., if_exists="append")
LastKvtInsert ==
    /\ pc = "last_kvt_insert"
    /\ t_last_kvt' = t_last_kvt \cup LastKvtRows
    /\ pc' = "sheet_select"
    /\ UNCHANGED <<world, now, grain, runs, frames, tables, history, failed_at, io,
                   col>>

\* read the parking metadata (select_parking_metadata)
SheetSelect ==
    /\ pc = "sheet_select"
    /\ pc' = "sheet_auth"
    /\ UNCHANGED <<world, now, grain, runs, frames, tables, history, failed_at, io,
                   t_last_kvt, col>>

\* manager = GoogleSheetsManager(CREDENTIALS_FILE, SPREADSHEET_ID)
SheetAuthenticate ==
    /\ pc = "sheet_auth"
    /\ pc' = "sheet_write"
    /\ UNCHANGED <<world, now, grain, runs, frames, tables, history, failed_at, io,
                   t_last_kvt, col>>

\* manager.truncate_and_write(df_parking_metadata, 'Sheet2!A:D', 'Sheet2',
\* use_batch_clear=True, include_headers=True), for every answer of the
\* spreadsheet service: the sheet exists or not, each request succeeds or
\* raises; main() ignores the result and returns
SheetTruncateAndWrite ==
    /\ pc = "sheet_write"
    /\ \E found, meta_ok, batch_ok, update_ok \in BOOLEAN :
          LET out == truncate_and_write(sheet, ParkingMetadata, found,
                                        meta_ok, batch_ok, update_ok)
          IN  /\ sheet' = out.sheet
              /\ sheet_steps' = out.steps
              /\ sheet_report' =
                    IF out.returned THEN "ok"
                    ELSE IF Len(out.steps) = 1 THEN "clear_failed"
                    ELSE "write_failed"
    /\ pc' = "done"
    /\ ReleaseFrames
    /\ UNCHANGED <<world, now, grain, runs, tables, history, failed_at,
                   connections,
                   t_last_kvt, col>>

\* the statements whose exception main() lets escape
Fallible == {"select_kvt", "select_areas", "select_orders", "select_distr",
             "connect", "delete", "insert", "last_kvt_select", "last_kvt_truncate",
             "last_kvt_insert", "sheet_select", "sheet_auth"}

\* Fail with the exception swallowed: main() goes on at the statement
Fail_Swallowed ==
    /\ pc \in Fallible
    /\ failed_at' = pc
    /\ UNCHANGED <<world, now, pc, grain, runs, frames, tables, history, io,
                   t_last_kvt, col>>

\* Fail with the whole run in one transaction: the result tables are set
\* back to what the run found
Fail_RollbackRun ==
    /\ pc \in Fallible
    /\ pc' = "failed"
    /\ failed_at' = pc
    /\ connections' = IF pc = "delete" THEN WithExit(connections)
                      ELSE connections
    /\ ReleaseFrames
    /\ t_area_revenue_stats2' = before["hour"]
    /\ t_area_revenue_stats3' = before["day"]
    /\ UNCHANGED <<world, now, grain, runs, history, sheet, sheet_report,
                   sheet_steps,
                   t_last_kvt, col>>

\* a statement raises: its own transaction is rolled back, a with block
\* around it is left, the exception ends main()
Fail ==
    /\ pc \in Fallible
    /\ pc' = "failed"
    /\ failed_at' = pc
    /\ connections' = IF pc = "delete" THEN WithExit(connections)
                      ELSE connections
    /\ ReleaseFrames
    /\ UNCHANGED <<world, now, grain, runs, tables, history, sheet, sheet_report, sheet_steps,
                   t_last_kvt, col>>

\* the statements that read the clock (NOW(), CURDATE(), Timestamp.now())
ReadsClock == {"select_kvt", "select_orders", "select_distr", "delete",
               "last_kvt_select", "sheet_select"}

\* an hour passes; between two statements that do not read the clock the
\* hour of the clock is not observed, so the tick is taken before one that does
Tick ==
    /\ now < MaxClock
    /\ pc \in ReadsClock \cup {"done", "failed"}
    /\ now' = now + 1
    /\ UNCHANGED <<world, pc, grain, runs, frames, tables, history, failed_at, io,
                   t_last_kvt, col>>

\* the scheduler invokes main() again
StartRun ==
    /\ pc \in {"done", "failed"}
    /\ runs < MaxRuns
    /\ runs' = runs + 1
    /\ pc' = "select_kvt" /\ grain' = "hour"
    /\ ReleaseFrames
    /\ window' = [g \in Grains |-> -1]
    /\ before' = [g \in Grains |-> TableOf(g)]
    /\ failed_at' = ""
    /\ connections' = 0
    /\ sheet_report' = "none" /\ sheet_steps' = <<>>
    /\ UNCHANGED <<world, now, tables, last_write, prev_write, sheet,
                   t_last_kvt, col>>

\* one pass of the while loop of _get_column_letter
ColumnLetterStep ==
    /\ column_number > 0
    /\ LET b == get_column_letter_body(column_number, result)
       IN  /\ column_number' = b.column_number
           /\ result' = b.result
    /\ UNCHANGED <<world, now, pc, grain, runs, frames, tables, history,
                   failed_at, io, t_last_kvt, column_input>>

\* no call of _get_column_letter is in progress: main() makes none
ColumnIdle == column_input = 0 /\ column_number = 0 /\ result = <<>>

(* --------------------------- specifications ---------------------------- *)
\* the stores of the program specification: one vehicle and one ride in
\* every hour, a debt on every day
HourlyHistory == { Sample(h, 1, 1, 1) : h \in 0..MaxClock }

HourlyRides == { Ride(h, h + 1, 1, 1, 1) : h \in 0..MaxClock }

DailyDistr == { Distr(StartDay(h), 1, Num(50), Num(30), NaN) : h \in 0..MaxClock }

Init ==
    /\ t_area \in { <<Z1, Z2>>, <<Z1, ZBad>> }
    /\ t_bike_history = HourlyHistory
    /\ t_rides \in { HourlyRides, {} }
    /\ v_distr = DailyDistr
    /\ now = 0
    /\ InitMain
    /\ ColumnIdle

Next ==
    \/ SelectKvt \/ SelectAreas \/ DecodeError \/ SelectOrders
    \/ SelectDistr \/ Connect \/ DeleteWindow \/ Insert
    \/ LastKvtSelect \/ LastKvtTruncate \/ LastKvtInsert
    \/ SheetSelect \/ SheetAuthenticate \/ SheetTruncateAndWrite
    \/ Fail \/ Tick \/ StartRun

\* the program: repeated invocations of main() under a running clock
Spec == Init /\ [][Next]_vars

\* one invocation of the two computing blocks at a fixed hour, over every
\* choice of the stores
PipeInit ==
    /\ t_area \in { c \in Catalogs :
                      \A i \in DOMAIN c : Decodable(c[i].area_detail) }
    /\ t_bike_history \in Stores(HistoryPool, MaxSamples)
    /\ t_rides \in Stores(RidePool, MaxRides)
    /\ v_distr \in DistrSources
    /\ now \in H0..MaxClock
    /\ InitMain
    /\ ColumnIdle

PipeNext ==
    \/ SelectKvt \/ SelectAreas \/ SelectOrders
    \/ SelectDistr \/ Connect \/ DeleteWindow \/ Insert

PipeSpec == PipeInit /\ [][PipeNext]_vars

\* one invocation of the two computing blocks over every choice of the
\* catalog and the feeds, the distribution input being empty
AttrInit ==
    /\ t_area \in AttrCatalogs
    /\ t_bike_history \in Stores(AttrHistoryPool, MaxAttrSamples)
    /\ t_rides \in Stores(AttrRidePool, MaxRides)
    /\ v_distr = {}
    /\ now \in H1..MaxClock
    /\ InitMain
    /\ ColumnIdle

AttrSpec == AttrInit /\ [][PipeNext]_vars

\* a call of _get_column_letter with every column number up to MaxColumn;
\* the loop is sequential code that nothing blocks, so a pass that can be
\* taken is taken
LetterInit ==
    /\ t_area = <<Z1, Z2>>
    /\ t_bike_history = {} /\ t_rides = {} /\ v_distr = {}
    /\ now = 0
    /\ InitMain
    /\ column_input \in 0..MaxColumn
    /\ column_number = column_input
    /\ result = <<>>

LetterNext == ColumnLetterStep

LetterSpec == LetterInit /\ [][LetterNext]_vars /\ WF_vars(ColumnLetterStep)

(* ------------------------- stage predicates ---------------------------- *)
\* the telemetry of the current block is attributed and aggregated
KvtDone ==
    pc \in {"select_orders", "select_distr", "connect", "delete", "insert"}

\* the rides of the current block are attributed and aggregated
OrdersDone == pc \in {"select_distr", "connect", "delete", "insert"}

\* the merged rows of the current block exist and are not yet written
Merged == pc \in {"connect", "delete", "insert"}

\* the block of grain g has just completed its insert
JustInserted(g) ==
    \/ g = "hour" /\ pc = "select_kvt" /\ grain = "day"
    \/ g = "day" /\ pc = "last_kvt_select"

\* the zones of the decoded catalog whose polygon contains the point
ZonesAt(lat, lng) ==
    { i \in DOMAIN df_areas : PolygonContains(df_areas[i].area_poly, lat, lng) }

OutKey(o) ==
    [bucket |-> o.timestamp_hour, city_id |-> o.city_id,
     area_id |-> o.area_id, area_name |-> o.area_name]

\* the rows of df_distr that belong to a bucket and a city
DistrRows(g, bucket, city) ==
    IF g = "hour" THEN { d \in df_distr : d.city_id = city }
    ELSE { d \in df_distr : d.city_id = city /\ d.start_day = bucket }

\* the city total of column fld, 0 when the input has no row
DistrTotal(ds, fld) ==
    IF ds = {} THEN Num(0) ELSE FillNa((CHOOSE d \in ds : TRUE)[fld])

(* ------------------------------ claims --------------------------------- *)
\* C1: two consecutive completed write steps of a grain that used the same
\* window start and wrote the same rows (add_time aside) leave the grain's
\* table with the same rows (add_time aside) as the first one left.
C1_ReplaceIdempotent ==
    \A g \in Grains :
        ( /\ prev_write[g].valid /\ last_write[g].valid
          /\ last_write[g].window = prev_write[g].window
          /\ last_write[g].rows = prev_write[g].rows )
        => last_write[g].after = prev_write[g].after

\* a second write step repeated the window and the non-empty rows of the first
C1_Witness ==
    \E g \in Grains :
        /\ prev_write[g].valid /\ last_write[g].valid
        /\ last_write[g].window = prev_write[g].window
        /\ last_write[g].rows = prev_write[g].rows
        /\ last_write[g].rows # {}
        /\ \E r \in last_write[g].rows : r.timestamp_hour >= last_write[g].window

\* C2: no state shows a window whose old rows are deleted while the new
\* rows are not yet inserted.
C2_AtomicVisibility ==
    ~ ( /\ pc = "insert"
        /\ \E r \in BagToSet(before[grain]) :
              /\ r.timestamp_hour >= window[grain]
              /\ ~BagIn(r, TableOf(grain)) )

\* C3: when the insert raises after the window delete, the table holds
\* exactly the rows it held before the run.
C3_RollbackOnInsertFailure ==
    (pc = "failed" /\ failed_at = "insert") => TableOf(grain) = before[grain]

\* every ride-aggregate key of the bucket and city of r has a telemetry
\* aggregate, so the left join keeps all its zone rows
AllZonesKept(r) ==
    \A x \in df_orders_areas_res :
        (x.bucket = r.bucket /\ x.city_id = r.city_id) =>
            \E k \in df_kvt_area_res : RowKey(k) = RowKey(x)

\* C4: on the persisted rows of a grain, for every bucket and city with a
\* ride, the zone rows' shares of each total add up to the city total of the
\* distribution input (stated for the buckets and cities whose zones are all
\* persisted and whose distribution input is a single row).
C4_ShareConservation ==
    \A g \in Grains :
        JustInserted(g) =>
            \A r \in df_orders_areas_res :
                LET rows == { o \in BagToSet(TableOf(g)) :
                                /\ o.timestamp_hour = r.bucket
                                /\ o.city_id = r.city_id }
                    ds == DistrRows(g, r.bucket, r.city_id)
                IN  (Cardinality(ds) <= 1 /\ AllZonesKept(r)) =>
                      /\ RatSumField(rows, "dolgi") = DistrTotal(ds, "dolgi")
                      /\ RatSumField(rows, "vyruchka_s_abonementov") =
                            DistrTotal(ds, "vyruchka_s_abonementov")
                      /\ RatSumField(rows, "sum_mnogor_abon") =
                            DistrTotal(ds, "sum_mnogor_abon")

\* rides of the bucket and the city of row r, each zone key counted once
BucketCityRides(frame, r) ==
    SumField({ [key |-> RowKey(x), poezdok |-> x.poezdok] :
               x \in { y \in frame : /\ y.city_id = r.city_id
                                     /\ y.bucket = r.bucket } }, "poezdok")

\* no city has two distribution-input rows joined to one ride aggregate
OneRowPerKey(frame) ==
    \A x, y \in frame : RowKey(x) = RowKey(y) => x = y

\* C5: every ride-aggregate row carries total * poezdok / city_total_rides
\* in each share, city_total_rides summed over the zones of the row's own
\* bucket and city (stated for distribution inputs with one row per city).
C5_DistributionFormula ==
    (Merged /\ OneRowPerKey(df_orders_areas_res)) =>
        \A r \in df_orders_areas_res :
            LET total == BucketCityRides(df_orders_areas_res, r)
            IN  /\ r.dolgi_res = Share(r.dolgi, r.poezdok, total)
                /\ r.vyruchka_s_abonementov_res =
                      Share(r.vyruchka_s_abonementov, r.poezdok, total)
                /\ r.sum_mnogor_abon_res =
                      Share(r.sum_mnogor_abon, r.poezdok, total)

\* the output row o lies in a bucket and city without any ride
NoRideAt(o) ==
    ~ \E r \in df_orders_areas_res :
          r.bucket = o.timestamp_hour /\ r.city_id = o.city_id

\* C6: an output row of a bucket and city without any ride has its three
\* shares exactly 0, and no share is computed with a zero divisor.
C6_ZeroRideSafety ==
    Merged =>
        /\ \A o \in df_orders_kvt_area_res :
              NoRideAt(o) =>
                  /\ o.dolgi = Num(0)
                  /\ o.vyruchka_s_abonementov = Num(0)
                  /\ o.sum_mnogor_abon = Num(0)
        /\ \A r \in df_orders_areas_res :
              /\ r.cum_poezdok > 0
              /\ r.dolgi_res.d # 0
              /\ r.vyruchka_s_abonementov_res.d # 0
              /\ r.sum_mnogor_abon_res.d # 0

\* telemetry without any ride in its bucket and city, next to a city with rides
C6_Witness ==
    /\ Merged
    /\ \E o \in df_orders_kvt_area_res : NoRideAt(o)
    /\ \E r \in df_orders_areas_res : ~IsNaN(r.dolgi) /\ r.dolgi.n > 0

\* C7: a telemetry sample or a ride that no zone polygon contains has
\* exactly one attribution row, in zone 0 named "0".
C7_UnassignedFallback ==
    /\ KvtDone =>
          \A s \in df_kvt :
              ZonesAt(s.g_lat, s.g_lng) = {} =>
                  { r \in kvt_attributed : r.sample = s } =
                      { [sample |-> s, area_id |-> 0, area_name |-> "0"] }
    /\ OrdersDone =>
          \A s \in df_orders :
              ZonesAt(s.start_lat, s.start_lng) = {} =>
                  { r \in orders_attributed : r.sample = s } =
                      { [sample |-> s, area_id |-> 0, area_name |-> "0"] }

\* a sample and a ride outside every zone have been attributed
C7_Witness ==
    /\ OrdersDone
    /\ \E s \in df_kvt : ZonesAt(s.g_lat, s.g_lng) = {}
    /\ \E s \in df_orders : ZonesAt(s.start_lat, s.start_lng) = {}

\* C8: no sample and no ride has more than one attribution row.
C8_SingleAttribution ==
    /\ KvtDone =>
          \A s \in df_kvt :
              Cardinality({ r \in kvt_attributed : r.sample = s }) <= 1
    /\ OrdersDone =>
          \A s \in df_orders :
              Cardinality({ r \in orders_attributed : r.sample = s }) <= 1

\* C9: a sample inside more than one zone polygon is attributed to the
\* first of these zones in catalog order and to no other.
C9_FirstZoneWins ==
    KvtDone =>
        \A r \in kvt_attributed :
            LET zs == ZonesAt(r.sample.g_lat, r.sample.g_lng)
            IN  Cardinality(zs) > 1 =>
                    r.area_id = df_areas[SetMin(zs)].area_id

\* C10: the merged rows carry exactly the telemetry-aggregate keys; a key
\* without a ride aggregate has ride count and ride money 0; a ride
\* aggregate whose key has no telemetry aggregate is not in the output.
C10_LeftJoin ==
    Merged =>
        /\ \A k \in df_kvt_area_res :
              /\ \E o \in df_orders_kvt_area_res : OutKey(o) = RowKey(k)
              /\ (~ \E r \in df_orders_areas_res : RowKey(r) = RowKey(k)) =>
                    \A o \in df_orders_kvt_area_res :
                        OutKey(o) = RowKey(k) =>
                            /\ o.poezdok = Num(0)
                            /\ o.obzchaya_stoimost = Num(0)
                            /\ o.oplacheno_bonusami = Num(0)
                            /\ o.skidka = Num(0)
                            /\ o.abon = Num(0)
        /\ \A r \in df_orders_areas_res :
              (~ \E k \in df_kvt_area_res : RowKey(k) = RowKey(r)) =>
                  ~ \E o \in df_orders_kvt_area_res : OutKey(o) = RowKey(r)

\* a telemetry key without rides next to a ride key without telemetry
C10_Witness ==
    /\ Merged
    /\ \E k \in df_kvt_area_res :
          ~ \E r \in df_orders_areas_res : RowKey(r) = RowKey(k)
    /\ \E r \in df_orders_areas_res :
          ~ \E k \in df_kvt_area_res : RowKey(k) = RowKey(r)
    /\ \E k \in df_kvt_area_res :
          \E r \in df_orders_areas_res : RowKey(r) = RowKey(k)

\* a cell that holds a number: neither NaN nor infinite
IsNumber(x) == x.d # 0

\* C11: every row handed to the writer holds a number in kvt, poezdok, the
\* four ride sums and the three shares.
C11_NoNulls ==
    Merged =>
        \A o \in df_orders_kvt_area_res :
            /\ IsNumber(o.kvt) /\ IsNumber(o.poezdok)
            /\ IsNumber(o.obzchaya_stoimost) /\ IsNumber(o.oplacheno_bonusami)
            /\ IsNumber(o.skidka) /\ IsNumber(o.abon)
            /\ IsNumber(o.dolgi) /\ IsNumber(o.vyruchka_s_abonementov)
            /\ IsNumber(o.sum_mnogor_abon)

\* the rows handed to the writer hold a telemetry key without rides, a key
\* with rides whose city has a NULL total, and a key with rides whose city
\* has no distribution row
C11_Witness ==
    /\ Merged
    /\ \E o \in df_orders_kvt_area_res :
          ~ \E r \in df_orders_areas_res : RowKey(r) = OutKey(o)
    /\ \E o \in df_orders_kvt_area_res :
          \E r \in df_orders_areas_res :
              /\ RowKey(r) = OutKey(o)
              /\ \E d \in DistrRows(grain, r.bucket, r.city_id) :
                    IsNaN(d.sum_mnogor_abon)
    /\ \E o \in df_orders_kvt_area_res :
          \E r \in df_orders_areas_res :
              /\ RowKey(r) = OutKey(o)
              /\ DistrRows(grain, r.bucket, r.city_id) = {}

\* the attributed rows whose day, city and zone are those of key k
DayRows(attributed, k) ==
    { r \in attributed : KeyOf(StartDay(r.sample.timestamp_hour), r) = k }

\* the hours of the day in which key k has an attributed row
DayHours(attributed, k) ==
    { r.sample.timestamp_hour : r \in DayRows(attributed, k) }

\* column fld of the attributed rides of key k, summed over the day
DaySum(attributed, k, fld) ==
    SumField({ [hour |-> r.sample.timestamp_hour, id |-> r.sample.id,
                v |-> r.sample[fld]] : r \in DayRows(attributed, k) }, "v")

\* C12: at daily grain the aggregates are keyed by the day of the hourly
\* bucket; the kvt of a key is the mean over its hours of the hourly count
\* (all its attributed samples divided by the number of its hours), and
\* poezdok and each ride sum is the total over the day.
C12_DailyRollup ==
    grain = "day" =>
        /\ KvtDone =>
              /\ { RowKey(k) : k \in df_kvt_area_res } =
                    { KeyOf(StartDay(r.sample.timestamp_hour), r) :
                      r \in kvt_attributed }
              /\ \A k \in df_kvt_area_res :
                    k.kvt = Norm(Cardinality(DayRows(kvt_attributed, RowKey(k))),
                                 Cardinality(DayHours(kvt_attributed, RowKey(k))))
        /\ OrdersDone =>
              /\ { RowKey(r) : r \in df_orders_areas_res } =
                    { KeyOf(StartDay(a.sample.timestamp_hour), a) :
                      a \in orders_attributed }
              /\ \A r \in df_orders_areas_res :
                    LET k == RowKey(r)
                    IN  /\ r.poezdok = Cardinality(DayRows(orders_attributed, k))
                        /\ r.obzchaya_stoimost =
                              DaySum(orders_attributed, k, "ride_amount")
                        /\ r.oplacheno_bonusami =
                              DaySum(orders_attributed, k, "discount")
                        /\ r.skidka =
                              DaySum(orders_attributed, k, "bike_discount_amount")
                        /\ r.abon =
                              DaySum(orders_attributed, k, "subscription_price")

\* a key whose hourly counts differ over two hours of a day, so that its
\* mean is no whole number, and a key with rides in two hours of a day
C12_Witness ==
    /\ grain = "day" /\ OrdersDone
    /\ \E k \in df_kvt_area_res :
          /\ Cardinality(DayHours(kvt_attributed, RowKey(k))) > 1
          /\ k.kvt.d > 1
    /\ \E r \in df_orders_areas_res :
          /\ Cardinality(DayHours(orders_attributed, RowKey(r))) > 1
          /\ r.obzchaya_stoimost > 100

\* the point lies on a vertex or an edge of the rectangle area_poly
OnBoundary(area_poly, lat, lng) ==
    LET lats == {area_poly[i][1] : i \in DOMAIN area_poly}
        lngs == {area_poly[i][2] : i \in DOMAIN area_poly}
    IN  /\ SetMin(lats) <= lat /\ lat <= SetMax(lats)
        /\ SetMin(lngs) <= lng /\ lng <= SetMax(lngs)
        /\ ~PolygonContains(area_poly, lat, lng)

\* C13: a sample on a vertex or an edge of a zone polygon has an
\* attribution row in that zone.
C13_BoundaryInclusive ==
    KvtDone =>
        \A s \in df_kvt :
            \A i \in DOMAIN df_areas :
                OnBoundary(df_areas[i].area_poly, s.g_lat, s.g_lng) =>
                    \E r \in kvt_attributed :
                        /\ r.sample = s
                        /\ r.area_id = df_areas[i].area_id
                        /\ r.area_name = df_areas[i].area_name

\* the feeds of the reference scenario: zones Z1 and Z2, two samples of city 1
\* in one hour, at (1,1) inside Z1 and at (20,20) inside no zone, one ride of
\* amount 100 at (1,1), and a debt total of 50 for the city
ScenarioInput ==
    /\ Merged
    /\ t_area = <<Z1, Z2>>
    /\ df_kvt = { Sample(H1, 1, 1, 1), Sample(H1, 2, 20, 20) }
    /\ df_orders = { Ride(H1, 1, 1, 1, 1) }
    /\ Cardinality(df_distr) = 1
    /\ \A d \in df_distr : d.city_id = 1 /\ d.dolgi = Num(50)

\* the rows of the reference scenario: Z1 with kvt 1, one ride, gross 100 and
\* the whole debt; zone 0 with kvt 1, no ride and no debt
ScenarioOutput ==
    /\ Cardinality(df_orders_kvt_area_res) = 2
    /\ \E o \in df_orders_kvt_area_res :
          /\ o.city_id = 1 /\ o.area_id = 1 /\ o.area_name = "Z1"
          /\ o.kvt = Num(1) /\ o.poezdok = Num(1)
          /\ o.obzchaya_stoimost = Num(100) /\ o.dolgi = Num(50)
    /\ \E o \in df_orders_kvt_area_res :
          /\ o.city_id = 1 /\ o.area_id = 0 /\ o.area_name = "0"
          /\ o.kvt = Num(1) /\ o.poezdok = Num(0)
          /\ o.obzchaya_stoimost = Num(0) /\ o.dolgi = Num(0)

\* the reference scenario taken alone
ScenarioHolds == ScenarioInput => ScenarioOutput

\* row r holds every ride of its bucket and city
HoldsAllRides(r) ==
    \A x \in df_orders_areas_res :
        (x.bucket = r.bucket /\ x.city_id = r.city_id) => RowKey(x) = RowKey(r)

\* C14: the reference scenario yields its two rows, and a zone that holds
\* all rides of a bucket and city receives the whole of each city total
\* (stated for distribution inputs with one row per city).
C14_ReferenceScenario ==
    /\ ScenarioHolds
    /\ (Merged /\ OneRowPerKey(df_orders_areas_res)) =>
          \A r \in df_orders_areas_res :
              HoldsAllRides(r) =>
                  /\ r.dolgi_res = r.dolgi
                  /\ r.vyruchka_s_abonementov_res = r.vyruchka_s_abonementov
                  /\ r.sum_mnogor_abon_res = r.sum_mnogor_abon

\* no two rows of the table carry one key (bucket, city, zone id, zone name)
KeyUnique(table) ==
    \A x, y \in BagToSet(table) :
        OutKey(x) = OutKey(y) => (x = y /\ CopiesIn(x, table) = 1)

\* C15: when a run has completed, each result table holds at most one row
\* per key.
C15_KeyUniqueness ==
    pc = "done" =>
        /\ KeyUnique(t_area_revenue_stats2)
        /\ KeyUnique(t_area_revenue_stats3)

\* C16: a failure of the spreadsheet refresh (authenticating, clearing or
\* writing) never makes the run fail, and a run that ends with a failed
\* refresh leaves in both result tables the rows its write steps left.
C16_SheetFailureRecoverable ==
    /\ ~ (pc = "failed" /\ failed_at \in {"sheet_auth", "sheet_write"})
    /\ (pc = "done" /\ sheet_report # "ok") =>
          \A g \in Grains :
              /\ last_write[g].valid
              /\ StripTable(TableOf(g)) = last_write[g].after

\* the failures of the computing part of a block: the feed queries, the
\* catalog query, the boundary decoding, the distribution-input query
PreWrite == {"select_kvt", "select_areas", "decode", "select_orders",
             "select_distr"}

\* C17: once a statement of the computing part of a block has failed, the
\* run has executed neither the window delete nor the insert of that block
\* (the block's table is as the run found it), and the run takes no further
\* step: only a new invocation of main() follows.
C17_PreWriteFailuresFatal ==
    [][ /\ failed_at' \in PreWrite =>
              /\ pc' = "failed"
              /\ window'[grain'] = -1
              /\ (IF grain' = "hour" THEN t_area_revenue_stats2'
                  ELSE t_area_revenue_stats3') = before'[grain']
        /\ (pc = "failed" /\ failed_at \in PreWrite) =>
              (pc' = "failed" \/ runs' = runs + 1) ]_vars

\* a block failed while computing, its table holding rows of an earlier run
C17_Witness ==
    /\ pc = "failed" /\ failed_at \in PreWrite
    /\ TableOf(grain) # EmptyBag
    /\ runs > 1

\* a latitude within [-90, 90] and a longitude within [-180, 180]
ValidCoordinate(lat, lng) ==
    /\ -90 <= lat /\ lat <= 90
    /\ -180 <= lng /\ lng <= 180

\* C18: a telemetry feed holding a sample with a latitude or a longitude
\* out of range is never attributed: attribution fails, so no state past
\* the attribution holds such a sample in the feed, in an attribution row
\* or in a count.
C18_InvalidCoordinatesRejected ==
    KvtDone =>
        /\ \A s \in df_kvt : ValidCoordinate(s.g_lat, s.g_lng)
        /\ \A r \in kvt_attributed :
              ValidCoordinate(r.sample.g_lat, r.sample.g_lng)

\* C19: attributed samples of one bucket and city that carry one zone id
\* carry one zone name: the aggregation never goes on with two names for a
\* zone id, and so never yields two aggregate rows for it.
C19_InconsistentZoneNames ==
    KvtDone =>
        /\ \A a, b \in kvt_attributed :
              ( /\ a.sample.timestamp_hour = b.sample.timestamp_hour
                /\ a.sample.city_id = b.sample.city_id
                /\ a.area_id = b.area_id ) => a.area_name = b.area_name
        /\ \A x, y \in df_kvt_area_res :
              ( /\ x.bucket = y.bucket /\ x.city_id = y.city_id
                /\ x.area_id = y.area_id ) => x = y

\* C20: main() holds a database connection only inside the with block of
\* the window delete: after the write step, after a failed delete and after
\* a failed insert no connection is open.
C20_ConnectionRelease ==
    /\ connections \in {0, 1}
    /\ connections = 1 => pc = "delete"
    /\ pc \in {"insert", "failed", "done"} => connections = 0

\* the daily delete failed inside its with block, after the hourly write
\* step had completed
C20_Witness ==
    /\ pc = "failed" /\ failed_at = "delete" /\ grain = "day"
    /\ connections = 0
    /\ last_write["hour"].valid

\* C21: truncate_and_write clears first and writes only after a successful
\* clearing; after a failed clearing it writes nothing and returns False;
\* it returns True only when both steps succeeded, the sheet then holding
\* the header row followed by the rows; no step is taken twice.
C21_TruncateAndWrite ==
    pc = "done" =>
        /\ Len(sheet_steps) \in {1, 2}
        /\ sheet_steps[1].step = "clear"
        /\ Len(sheet_steps) = 2 =>
              (sheet_steps[2].step = "write" /\ sheet_steps[1].ok)
        /\ ~sheet_steps[1].ok =>
              (Len(sheet_steps) = 1 /\ sheet_report # "ok")
        /\ sheet_report = "ok" =>
              /\ Len(sheet_steps) = 2
              /\ sheet_steps[1].ok /\ sheet_steps[2].ok
              /\ sheet = <<ParkingMetadata.columns>> \o ParkingMetadata.rows

\* a run whose clearing failed, after a run that refreshed the sheet: the
\* sheet still holds the rows of the earlier run
C21_Witness ==
    /\ pc = "done" /\ runs = 2
    /\ sheet_report = "clear_failed"
    /\ sheet = <<ParkingMetadata.columns>> \o ParkingMetadata.rows

\* the frames of the current block are the decoded catalog, the attributed
\* feeds, their aggregates of the block's grain, the distributed ride
\* aggregate and the merged rows, each computed from the one before
StagesComplete ==
    /\ df_areas = DecodeAreas(t_area)
    /\ kvt_attributed = AttributeKvt(df_kvt, df_areas)
    /\ orders_attributed = AttributeOrders(df_orders, df_areas)
    /\ df_kvt_area_res =
          (IF grain = "hour" THEN AggregateKvt(kvt_attributed)
           ELSE DailyKvt(AggregateKvt(kvt_attributed)))
    /\ LET agg == IF grain = "hour" THEN AggregateOrders(orders_attributed)
                  ELSE DailyOrders(AggregateOrders(orders_attributed))
       IN  df_orders_areas_res =
              Distribute(IF grain = "hour" THEN MergeDistrHourly(agg, df_distr)
                         ELSE MergeDistrDaily(agg, df_distr))
    /\ \E stamp \in 0..MaxClock :
          df_orders_kvt_area_res =
              MergeKvtOrders(df_kvt_area_res, df_orders_areas_res, stamp)

\* the write step of grain g has been completed in this run
Replaced(g) ==
    /\ window[g] # -1
    /\ last_write[g].valid /\ last_write[g].window = window[g]

\* C22: the window delete of a block is executed with the block's decode,
\* attribution, aggregation, distribution and merge completed; the insert
\* of a block is executed after the block's delete; truncate_and_write is
\* executed after both result tables have been replaced in the run.
C22_StageOrdering ==
    [][ /\ window' # window /\ window'[grain] # -1 =>
              (StagesComplete /\ pc = "delete")
        /\ tables' # tables /\ window' = window =>
              (pc = "insert" /\ window[grain] # -1 /\ StagesComplete)
        /\ sheet_steps' # sheet_steps /\ sheet_steps' # <<>> =>
              (Replaced("hour") /\ Replaced("day")) ]_vars

\* a run replaced both tables with rows and then refreshed the sheet
C22_Witness ==
    /\ pc = "done" /\ sheet_report = "ok"
    /\ Replaced("hour") /\ Replaced("day")
    /\ last_write["hour"].rows # {} /\ last_write["day"].rows # {}

\* C23: every row a write step inserted has a bucket at or after the window
\* start its delete used.
C23_InsertedInsideWindow ==
    \A g \in Grains :
        JustInserted(g) =>
            \A r \in last_write[g].rows :
                r.timestamp_hour >= last_write[g].window

\* C24: the merged rows hold exactly one row for every telemetry-aggregate
\* key.
C24_OneRowPerTelemetryKey ==
    Merged =>
        \A k \in df_kvt_area_res :
            Cardinality({ o \in df_orders_kvt_area_res :
                            OutKey(o) = RowKey(k) }) = 1

\* C25: in the hourly telemetry aggregate, the kvt of the zone rows of a
\* bucket and city, zone 0 included, add up to the number of samples of
\* that bucket and city in the feed.
C25_TelemetryCountConservation ==
    (grain = "hour" /\ KvtDone) =>
        /\ \A k \in df_kvt_area_res :
              RatSumField({ x \in df_kvt_area_res :
                              x.bucket = k.bucket /\ x.city_id = k.city_id },
                          "kvt") =
                 Num(Cardinality({ s \in df_kvt :
                                     /\ s.timestamp_hour = k.bucket
                                     /\ s.city_id = k.city_id }))
        /\ \A s \in df_kvt :
              \E k \in df_kvt_area_res :
                  k.bucket = s.timestamp_hour /\ k.city_id = s.city_id

\* every row of table t with a bucket before start is in table u at least
\* as often
KeptBefore(t, u, start) ==
    \A r \in BagToSet(t) :
        r.timestamp_hour < start => CopiesIn(r, u) >= CopiesIn(r, t)

\* C26: a step of the write step of a grain (the delete, the insert) keeps
\* every row of the grain's table whose bucket is before the window start
\* and leaves the other grain's table as it is; no other step changes a
\* result table.
C26_WindowReplaceFrame ==
    [][ /\ tables' # tables => pc \in {"delete", "insert"}
        /\ grain = "hour" =>
              /\ t_area_revenue_stats3' = t_area_revenue_stats3
              /\ KeptBefore(t_area_revenue_stats2, t_area_revenue_stats2',
                            window'["hour"])
        /\ grain = "day" =>
              /\ t_area_revenue_stats2' = t_area_revenue_stats2
              /\ KeptBefore(t_area_revenue_stats3, t_area_revenue_stats3',
                            window'["day"]) ]_vars

\* a write step is completed on a table that held, when the run started, a
\* row before the window start and a row inside the window
C26_Witness ==
    \E g \in Grains :
        /\ JustInserted(g)
        /\ \E r \in BagToSet(before[g]) :
              r.timestamp_hour < window[g] /\ BagIn(r, TableOf(g))
        /\ \E r \in BagToSet(before[g]) : r.timestamp_hour >= window[g]

\* the stages of a run that follow the daily write step
AfterDaily == {"last_kvt_select", "last_kvt_truncate", "last_kvt_insert",
               "sheet_select", "sheet_auth", "sheet_write"}

\* C27: from the hourly insert of a run on, whatever stage runs or fails,
\* the hourly table holds the rows that write step left; from the daily
\* insert on, the daily table holds the rows that write step left.
C27_NoCrossStageRollback ==
    /\ grain = "day" =>
          /\ last_write["hour"].valid
          /\ StripTable(t_area_revenue_stats2) = last_write["hour"].after
    /\ ( \/ pc \in AfterDaily \cup {"done"}
         \/ pc = "failed" /\ failed_at \in AfterDaily ) =>
          /\ last_write["day"].valid
          /\ StripTable(t_area_revenue_stats3) = last_write["day"].after

\* the t_last_kvt reload failed in a run that had changed both tables
C27_Witness ==
    /\ pc = "failed" /\ failed_at = "last_kvt_insert"
    /\ t_area_revenue_stats2 # before["hour"]
    /\ t_area_revenue_stats3 # before["day"]
    /\ before["hour"] # EmptyBag


(* ------------------------------- C28 ----------------------------------- *)
\* ord(c) for the capital letters
ord(c) == CHOOSE code \in 65..90 : chr(code) = c

\* the number a label stands for in bijective base 26: the digits A..Z are
\* worth 1..26, the leftmost digit is the most significant
RECURSIVE LabelValue(_)
LabelValue(label) ==
    IF label = <<>> THEN 0
    ELSE 26 * LabelValue(SubSeq(label, 1, Len(label) - 1))
         + (ord(label[Len(label)]) - 64)

\* the call has returned
Returned == column_number = 0

\* the labels the documentation of the function and of the sheet name
Labelled ==
    /\ column_input = 1 => result = <<"A">>
    /\ column_input = 26 => result = <<"Z">>
    /\ column_input = 27 => result = <<"A", "A">>
    /\ column_input = 52 => result = <<"A", "Z">>
    /\ column_input = 53 => result = <<"B", "A">>

\* C28: _get_column_letter maps every column number n >= 1 to its label in
\* bijective base 26 (1 -> A, 26 -> Z, 27 -> AA, 52 -> AZ, 53 -> BA), each
\* pass of its loop makes the number smaller without making it negative and
\* the call returns for every n >= 0, and no other positive number has the
\* label that n has
C28_ColumnLetter ==
    /\ [](Returned =>
            /\ \A i \in DOMAIN result : \E k \in DOMAIN Alphabet : Alphabet[k] = result[i]
            /\ LabelValue(result) = column_input
            /\ Labelled
            /\ \A m \in 1..MaxColumn :
                   m # column_input => get_column_letter(m) # result)
    /\ [][column_number' >= 0 /\ column_number' < column_number]_vars
    /\ <>Returned

C28_Witness ==
    /\ column_input = 703 /\ Returned
    /\ result = <<"A", "A", "A">>

=============================================================================
